---- MODULE Spec2Model ----
(***************************************************************************)
(* Model of the NAV resolver, the return calculator and the investment     *)
(* comparison endpoint of src/main.py.                                     *)
(*                                                                         *)
(* Representation.                                                         *)
(*  - A datetime is an integer number of ticks; a calendar day has         *)
(*    TicksPerDay ticks, so dt \div TicksPerDay is dt.date() and a         *)
(*    datetime built by parse_date is a multiple of TicksPerDay.           *)
(*  - A date string is a record [day, form]: the calendar day its digits   *)
(*    denote and the way it is written ("padded" is what strftime          *)
(*    "%d-%m-%Y" prints, "unpadded" is another spelling int() accepts,     *)
(*    "malformed" is text parse_date rejects).                             *)
(*  - Amounts and NAVs are integers chosen so that every quotient the      *)
(*    calculator forms is an integer; round(x, n) leaves such values as    *)
(*    they are.  pow() is irrational, so the annualized return is kept as  *)
(*    the exact term (base, exponent) it is computed from.                 *)
(***************************************************************************)
EXTENDS Integers, Sequences, FiniteSets, TLC

VARIABLES NAV_DATA_MAP, FUNDS_DATA, op, args, result, calls

vars == <<NAV_DATA_MAP, FUNDS_DATA, op, args, result, calls>>

(* ------------------------------ bounds --------------------------------- *)

\* Longest observation list of a scheme in the NAV store.
MaxObs == 2

\* Resolution of the clock: instants per calendar day.
TicksPerDay == 2

\* The calendar day on which requests are handled.
Today == 60

\* Most funds of a catalog that is ranked.
MaxFunds == 2

\* Number of value levels a metric is drawn from.
ProfileLevels == 6

(* --------------------------- program constants ------------------------- *)

MinAmount == 500

MaxAmount == 100000000

MinAgeDays == 30

(* ------------------------------ input sets ----------------------------- *)

StoredCodes == {1, 2}

StoreDays == {20, 40}

Navs == {10, 20}

\* Days a comparison is asked for: before every stored day, on one, between
\* two, and around the minimum age.
RequestDays ==
    {10, 20, 25, Today - MinAgeDays, Today - MinAgeDays + 1, Today, Today + 1}

UnpaddedDays == {25}

Amounts == {0, MinAmount - 1, MinAmount, MaxAmount, MaxAmount + 1}

DateStr(day, form) == [day |-> day, form |-> form]

NoDate == DateStr(0, "none")

RequestDates ==
    {DateStr(d, "padded") : d \in RequestDays}
        \cup {DateStr(d, "unpadded") : d \in UnpaddedDays}
        \cup {DateStr(0, "malformed")}

\* Dates the helpers are called with: the request dates and every stored day.
ResolverDates == RequestDates \cup {DateStr(d, "padded") : d \in StoreDays}

Observations == {[date |-> DateStr(d, "padded"), nav |-> n] : d \in StoreDays, n \in Navs}

SeqsUpTo(S, n) == UNION {[1..k -> S] : k \in 0..n}

\* The stores load_nav_data can leave behind: every stored scheme has a list
\* of observations, in any order, possibly empty.
Stores == [StoredCodes -> [data : SeqsUpTo(Observations, MaxObs)]]

(* ------------------------------ dates ---------------------------------- *)

\* parse_date raises ValueError unless the text splits into three integers.
ParseOk(date_str) == date_str.form \in {"padded", "unpadded"}

parse_date(date_str) == date_str.day * TicksPerDay

format_date(dt) == DateStr(dt \div TicksPerDay, "padded")

DateOf(dt) == dt \div TicksPerDay

(* --------------------------- sorting helpers --------------------------- *)

\* Python's sorted()/list.sort() is stable, with reverse=True as well:
\* elements with equal keys keep the order they had.
RECURSIVE InsertDateAsc(_, _)
InsertDateAsc(sorted, dt) ==
    IF sorted = <<>> THEN <<dt>>
    ELSE IF Head(sorted) <= dt
         THEN <<Head(sorted)>> \o InsertDateAsc(Tail(sorted), dt)
         ELSE <<dt>> \o sorted

\* Variant: the dates are left in list order.
SortDatesAsc_Unsorted(dates) == dates

\* sorted(dates, reverse=False)
RECURSIVE SortDatesAsc(_)
SortDatesAsc(dates) ==
    IF dates = <<>> THEN <<>>
    ELSE InsertDateAsc(SortDatesAsc(SubSeq(dates, 1, Len(dates) - 1)), dates[Len(dates)])

\* Variant: an entry is appended where it comes, not inserted by its date.
InsertEntryDesc_Append(sorted, entry) == Append(sorted, entry)

RECURSIVE InsertEntryDesc(_, _)
InsertEntryDesc(sorted, entry) ==
    IF sorted = <<>> THEN <<entry>>
    ELSE IF parse_date(Head(sorted).date) >= parse_date(entry.date)
         THEN <<Head(sorted)>> \o InsertEntryDesc(Tail(sorted), entry)
         ELSE <<entry>> \o sorted

\* Variant: the entries are left in list order.
SortEntriesDesc_Unsorted(data) == data

\* sorted(data, key=lambda x: parse_date(x['date']), reverse=True)
RECURSIVE SortEntriesDesc(_)
SortEntriesDesc(data) ==
    IF data = <<>> THEN <<>>
    ELSE InsertEntryDesc(SortEntriesDesc(SubSeq(data, 1, Len(data) - 1)), data[Len(data)])

RECURSIVE MapParse(_)
MapParse(data) ==
    IF data = <<>> THEN <<>>
    ELSE <<parse_date(Head(data).date)>> \o MapParse(Tail(data))

\* Variant: the observations on or after the target date are kept.
RECURSIVE FilterUpTo_After(_, _)
FilterUpTo_After(data, target_date) ==
    IF data = <<>> THEN <<>>
    ELSE (IF parse_date(Head(data).date) >= target_date THEN <<Head(data)>> ELSE <<>>)
             \o FilterUpTo_After(Tail(data), target_date)

RECURSIVE FilterUpTo(_, _)
FilterUpTo(data, target_date) ==
    IF data = <<>> THEN <<>>
    ELSE (IF parse_date(Head(data).date) <= target_date THEN <<Head(data)>> ELSE <<>>)
             \o FilterUpTo(Tail(data), target_date)

(* ------------------------------ results -------------------------------- *)

\* Python's None.
None == [kind |-> "None"]

NavPoint(entry, exact) ==
    [kind |-> "nav", nav |-> entry.nav, date |-> entry.date, exact_match |-> exact]

BeforeFundStart(fund_start_date) ==
    [kind |-> "error", error_type |-> "BEFORE_FUND_START",
     fund_start_date |-> format_date(fund_start_date)]

\* An error dict that carries a message only (no error_type key).
MessageError(message) ==
    [kind |-> "error", error_type |-> message, fund_start_date |-> NoDate]

\* The ValueError parse_date raises, as it leaves the function that called it.
ValueError == [kind |-> "ValueError"]

Raised(x) == x.kind = "ValueError"

\* x.get('error') is truthy
IsError(x) == x.kind = "error"

(* ------------------------------ resolver ------------------------------- *)

\* The first entry of data, in list order, whose date is target_date's.
ExactMatches(data, target_date) ==
    {i \in 1..Len(data) : DateOf(parse_date(data[i].date)) = DateOf(target_date)}

Min(S) == CHOOSE x \in S : \A y \in S : x <= y

\* Variant: the start date itself counts as before the start.
BeforeStart_Inclusive(target_date, fund_start_date) == target_date <= fund_start_date

\* if target_date < fund_start_date
BeforeStart(target_date, fund_start_date) == target_date < fund_start_date

get_nav_on_date(store, scheme_code, investment_date) ==
    IF scheme_code \notin DOMAIN store THEN None
    ELSE IF ~ParseOk(investment_date) THEN ValueError
    ELSE LET nav_scheme == store[scheme_code]
             target_date == parse_date(investment_date)
             all_dates == SortDatesAsc(MapParse(nav_scheme.data))
         IN  IF all_dates = <<>> THEN None
             ELSE LET fund_start_date == all_dates[1]
                      exact == ExactMatches(nav_scheme.data, target_date)
                      previous_navs ==
                          SortEntriesDesc(FilterUpTo(nav_scheme.data, target_date))
                  IN  IF BeforeStart(target_date, fund_start_date)
                      THEN BeforeFundStart(fund_start_date)
                      ELSE IF exact # {}
                      THEN NavPoint(nav_scheme.data[Min(exact)], TRUE)
                      ELSE IF previous_navs # <<>>
                      THEN NavPoint(previous_navs[1], FALSE)
                      ELSE None

\* Variant: the first stored entry is taken for the latest.
get_current_nav_First(store, scheme_code) ==
    IF scheme_code \notin DOMAIN store THEN None
    ELSE IF store[scheme_code].data = <<>> THEN None
    ELSE [kind |-> "nav", nav |-> store[scheme_code].data[1].nav,
          date |-> store[scheme_code].data[1].date]

get_current_nav(store, scheme_code) ==
    IF scheme_code \notin DOMAIN store THEN None
    ELSE LET nav_scheme == store[scheme_code]
         IN  IF nav_scheme.data = <<>> THEN None
             ELSE LET sorted_data == SortEntriesDesc(nav_scheme.data)
                  IN  [kind |-> "nav", nav |-> sorted_data[1].nav,
                       date |-> sorted_data[1].date]

\* Variant: nav_scheme["data"].sort(...) orders the stored list itself.
AfterSorted_InPlace(store, scheme_code) ==
    IF scheme_code \notin DOMAIN store THEN store
    ELSE [store EXCEPT ![scheme_code].data = SortEntriesDesc(@)]

\* The store after get_current_nav: sorted(nav_scheme["data"], ...) builds a
\* new list, and the stored one keeps its order.
AfterSorted(store, scheme_code) == store

(* --------------------------- return calculator ------------------------- *)

RECURSIVE GCD(_, _)
GCD(a, b) == IF b = 0 THEN a ELSE GCD(b, a % b)

Abs(x) == IF x < 0 THEN -x ELSE x

\* Variant: the quotient is not scaled to a percentage.
ReturnPercentage_Fraction(absolute_returns, investment_amount) ==
    absolute_returns \div investment_amount

\* (absolute_returns / investment_amount) * 100, the quotient reduced first
\* so that the intermediate product stays small.
ReturnPercentage(absolute_returns, investment_amount) ==
    LET g == GCD(Abs(absolute_returns), investment_amount)
    IN  ((absolute_returns \div g) * 100) \div (investment_amount \div g)

\* The value 0 of the else branch, and of pow(1.0, y) - 1.
XirrZero == [pow |-> FALSE, base_num |-> 1, base_den |-> 1, days |-> 0]

\* (pow(current_value / investment_amount, 1 / years) - 1) * 100 with
\* years = days / 365.25: the term is determined by the quotient
\* current_value / investment_amount (in lowest terms) and by days.
Annualized(current_value, investment_amount, days) ==
    LET g == GCD(current_value, investment_amount)
    IN  IF current_value = investment_amount THEN XirrZero
        ELSE [pow |-> TRUE,
              base_num |-> current_value \div g,
              base_den |-> investment_amount \div g,
              days |-> days]

\* Variant: the growth is annualized whatever the duration.
Xirr_Unguarded(current_value, investment_amount, days) ==
    [pow |-> TRUE, base_num |-> current_value, base_den |-> investment_amount, days |-> days]

Xirr(current_value, investment_amount, days) ==
    IF days > 0 THEN Annualized(current_value, investment_amount, days) ELSE XirrZero

\* Variant: a holding period is never negative.
DurationDays_Clamped(current_date, purchase_date) ==
    IF current_date < purchase_date THEN 0
    ELSE (current_date - purchase_date) \div TicksPerDay

\* (current_date - purchase_date).days
DurationDays(current_date, purchase_date) ==
    (current_date - purchase_date) \div TicksPerDay

calculate_returns(store, scheme_code, investment_amount, investment_date) ==
    LET purchase_nav_data == get_nav_on_date(store, scheme_code, investment_date)
        current_nav_data == get_current_nav(store, scheme_code)
    IN  IF Raised(purchase_nav_data) THEN ValueError
        ELSE IF purchase_nav_data = None THEN MessageError("NAV data not available")
        ELSE IF IsError(purchase_nav_data) THEN purchase_nav_data
        ELSE IF current_nav_data = None THEN MessageError("Current NAV data not available")
        ELSE IF IsError(current_nav_data) THEN current_nav_data
        ELSE LET purchase_nav == purchase_nav_data.nav
                 current_nav == current_nav_data.nav
                 units == investment_amount \div purchase_nav
                 current_value == units * current_nav
                 absolute_returns == current_value - investment_amount
                 return_percentage == ReturnPercentage(absolute_returns, investment_amount)
                 purchase_date == parse_date(investment_date)
                 current_date == parse_date(current_nav_data.date)
                 days == DurationDays(current_date, purchase_date)
             IN  [kind |-> "returns",
                  scheme_code |-> scheme_code,
                  investment |-> [amount |-> investment_amount,
                                  date |-> investment_date,
                                  purchase_nav |-> purchase_nav,
                                  purchase_date |-> purchase_nav_data.date,
                                  exact_date_match |-> purchase_nav_data.exact_match],
                  current |-> [nav |-> current_nav,
                               date |-> current_nav_data.date,
                               value |-> current_value],
                  returns |-> [absolute |-> absolute_returns,
                               percentage |-> return_percentage,
                               xirr |-> Xirr(current_value, investment_amount, days)],
                  metrics |-> [units |-> units, duration_days |-> days]]

(* --------------------------- comparison engine ------------------------- *)

\* raise HTTPException(status, detail); fund_start_date is the start date the
\* detail names, NoDate when it names none.
HTTPException(status, detail, fund_start_date) ==
    [status |-> status, detail |-> detail, fund_start_date |-> fund_start_date]

\* One invocation of calculate_returns, as compare_investment makes it.
Invocation(scheme_code, investment_amount, investment_date) ==
    [scheme_code |-> scheme_code, amount |-> investment_amount, date |-> investment_date]

\* The difference of two annualized returns, kept as the term it is formed from.
XirrDifference(xirr2, xirr1) == [minuend |-> xirr2, subtrahend |-> xirr1]

\* Variant: the differences are taken fund 1 minus fund 2.
Comparison_Swapped(fund1_returns, fund2_returns) ==
    LET value_difference == fund1_returns.current.value - fund2_returns.current.value
    IN  [value_difference |-> value_difference,
         percentage_difference |->
             fund1_returns.returns.percentage - fund2_returns.returns.percentage,
         xirr_difference |->
             XirrDifference(fund1_returns.returns.xirr, fund2_returns.returns.xirr),
         is_fund2_better |-> value_difference > 0]

Comparison(fund1_returns, fund2_returns) ==
    LET value_difference == fund2_returns.current.value - fund1_returns.current.value
        percentage_difference ==
            fund2_returns.returns.percentage - fund1_returns.returns.percentage
        xirr_difference ==
            XirrDifference(fund2_returns.returns.xirr, fund1_returns.returns.xirr)
    IN  [value_difference |-> value_difference,
         percentage_difference |-> percentage_difference,
         xirr_difference |-> xirr_difference,
         is_fund2_better |-> value_difference > 0]

Success(fund1_returns, fund2_returns, adjustment_info, request) ==
    [status |-> 200,
     fund1 |-> fund1_returns,
     fund2 |-> fund2_returns,
     comparison |-> Comparison(fund1_returns, fund2_returns),
     adjustment |-> adjustment_info,
     meta |-> [investment_amount |-> request.investment_amount,
               investment_date |-> request.investment_date]]

\* Variant: fund 1 keeps the returns computed from the requested date.
Realign_KeepFund1(store, request, fund2_first) ==
    LET fund2_start_date == fund2_first.fund_start_date
        fund2_returns ==
            calculate_returns(store, request.fund2_code, request.investment_amount,
                              fund2_start_date)
        fund1_returns ==
            calculate_returns(store, request.fund1_code, request.investment_amount,
                              request.investment_date)
    IN  [response |->
             Success(fund1_returns, fund2_returns,
                     [adjusted |-> TRUE,
                      original_date |-> request.investment_date,
                      adjusted_date |-> fund2_start_date,
                      fund2_start_date |-> fund2_start_date], request),
         calls |-> <<Invocation(request.fund2_code, request.investment_amount,
                                fund2_start_date)>>]

\* Fund 2 reported BEFORE_FUND_START: both legs are computed again from
\* fund 2's start date.
Realign(store, request, fund2_first) ==
    LET fund2_start_date == fund2_first.fund_start_date
        fund2_returns ==
            calculate_returns(store, request.fund2_code, request.investment_amount,
                              fund2_start_date)
        fund1_adjusted ==
            calculate_returns(store, request.fund1_code, request.investment_amount,
                              fund2_start_date)
        made == <<Invocation(request.fund2_code, request.investment_amount, fund2_start_date),
                  Invocation(request.fund1_code, request.investment_amount, fund2_start_date)>>
        adjustment_info ==
            [adjusted |-> TRUE,
             original_date |-> request.investment_date,
             adjusted_date |-> fund2_start_date,
             fund2_start_date |-> fund2_start_date]
    IN  IF IsError(fund1_adjusted)
        THEN [response |-> HTTPException(400, "CANNOT_COMPARE", fund2_start_date),
              calls |-> made]
        ELSE [response |-> Success(fund1_adjusted, fund2_returns, adjustment_info, request),
              calls |-> made]

\* Variant: the start date of fund 1 is left out of the error.
Fund1Failure_Generic(fund1_returns) ==
    HTTPException(400, fund1_returns.error_type, NoDate)

\* if fund1_returns.get('error'): the HTTPException raised for fund 1.
Fund1Failure(fund1_returns) ==
    IF fund1_returns.error_type = "BEFORE_FUND_START"
    THEN HTTPException(400, "started on", fund1_returns.fund_start_date)
    ELSE HTTPException(400, fund1_returns.error_type, NoDate)

\* Variant: fund 2 is bought on the day fund 1's purchase NAV dates from.
Compute_Fund2AtResolvedDate(store, request) ==
    LET fund1_returns ==
            calculate_returns(store, request.fund1_code, request.investment_amount,
                              request.investment_date)
        resolved_date ==
            IF IsError(fund1_returns) THEN request.investment_date
            ELSE fund1_returns.investment.purchase_date
        fund2_returns ==
            calculate_returns(store, request.fund2_code, request.investment_amount,
                              resolved_date)
        call1 == Invocation(request.fund1_code, request.investment_amount,
                            request.investment_date)
        call2 == Invocation(request.fund2_code, request.investment_amount, resolved_date)
    IN  IF IsError(fund1_returns)
        THEN [response |-> Fund1Failure(fund1_returns), calls |-> <<call1>>]
        ELSE IF IsError(fund2_returns) /\ fund2_returns.error_type = "BEFORE_FUND_START"
        THEN LET realigned == Realign(store, request, fund2_returns)
             IN  [response |-> realigned.response,
                  calls |-> <<call1, call2>> \o realigned.calls]
        ELSE IF IsError(fund2_returns)
        THEN [response |-> HTTPException(404, fund2_returns.error_type, NoDate),
              calls |-> <<call1, call2>>]
        ELSE [response |-> Success(fund1_returns, fund2_returns, [adjusted |-> FALSE], request),
              calls |-> <<call1, call2>>]

\* The body of compare_investment after validation: the response and the
\* invocations of calculate_returns made on the way, in order.
Compute(store, request) ==
    LET fund1_code == request.fund1_code
        fund2_code == request.fund2_code
        investment_date == request.investment_date
        investment_amount == request.investment_amount
        fund1_returns == calculate_returns(store, fund1_code, investment_amount, investment_date)
        fund2_returns == calculate_returns(store, fund2_code, investment_amount, investment_date)
        call1 == Invocation(fund1_code, investment_amount, investment_date)
        call2 == Invocation(fund2_code, investment_amount, investment_date)
    IN  IF IsError(fund1_returns)
        THEN [response |-> Fund1Failure(fund1_returns), calls |-> <<call1>>]
        ELSE IF IsError(fund2_returns) /\ fund2_returns.error_type = "BEFORE_FUND_START"
        THEN LET realigned == Realign(store, request, fund2_returns)
             IN  [response |-> realigned.response,
                  calls |-> <<call1, call2>> \o realigned.calls]
        ELSE IF IsError(fund2_returns)
        THEN [response |-> HTTPException(404, fund2_returns.error_type, NoDate),
              calls |-> <<call1, call2>>]
        ELSE [response |-> Success(fund1_returns, fund2_returns, [adjusted |-> FALSE], request),
              calls |-> <<call1, call2>>]

\* Variant: the two configured limits are themselves refused.
AmountRejection_Exclusive(investment_amount) ==
    IF investment_amount <= 0 THEN "Investment amount must be positive"
    ELSE IF investment_amount <= MinAmount THEN "Minimum investment amount"
    ELSE IF investment_amount >= MaxAmount THEN "Maximum investment amount"
    ELSE "accepted"

\* Validation: Amount.  The detail of the HTTPException raised, "accepted"
\* when none is.
AmountRejection(investment_amount) ==
    IF investment_amount <= 0 THEN "Investment amount must be positive"
    ELSE IF investment_amount < MinAmount THEN "Minimum investment amount"
    ELSE IF investment_amount > MaxAmount THEN "Maximum investment amount"
    ELSE "accepted"

\* Variant: a date exactly the minimum age old is refused as well.
DateRejection_Inclusive(investment_date, now) ==
    IF ~ParseOk(investment_date) THEN "Invalid date format"
    ELSE IF DateOf(parse_date(investment_date)) >= DateOf(now)
    THEN "Investment date cannot be today or in the future"
    ELSE IF parse_date(investment_date) >= now - MinAgeDays * TicksPerDay
    THEN "Investment date must be at least 1 month old"
    ELSE "accepted"

\* Validation: date format, date not in future, at least 1 month old.  The
\* detail of the HTTPException raised, "accepted" when none is.
DateRejection(investment_date, now) ==
    LET invest_date == parse_date(investment_date)
        today == now
        one_month_ago == today - MinAgeDays * TicksPerDay
    IN  IF ~ParseOk(investment_date) THEN "Invalid date format"
        ELSE IF DateOf(invest_date) >= DateOf(today)
        THEN "Investment date cannot be today or in the future"
        ELSE IF invest_date > one_month_ago
        THEN "Investment date must be at least 1 month old"
        ELSE "accepted"

\* Variant: the funds are looked up before the request is validated.
compare_investment_FundsFirst(store, request, now) ==
    LET Rejected(status, detail) ==
            [response |-> HTTPException(status, detail, NoDate), calls |-> <<>>]
    IN  IF request.fund1_code \notin DOMAIN store
        THEN Rejected(404, "Fund 1 not found")
        ELSE IF request.fund2_code \notin DOMAIN store
        THEN Rejected(404, "Fund 2 not found")
        ELSE IF AmountRejection(request.investment_amount) # "accepted"
        THEN Rejected(400, AmountRejection(request.investment_amount))
        ELSE IF DateRejection(request.investment_date, now) # "accepted"
        THEN Rejected(400, DateRejection(request.investment_date, now))
        ELSE Compute(store, request)

\* compare_investment(request), handled at the instant now (datetime.now()).
compare_investment(store, request, now) ==
    LET investment_amount == request.investment_amount
        Rejected(status, detail) ==
            [response |-> HTTPException(status, detail, NoDate), calls |-> <<>>]
    IN  IF AmountRejection(investment_amount) # "accepted"
        THEN Rejected(400, AmountRejection(investment_amount))
        ELSE IF DateRejection(request.investment_date, now) # "accepted"
        THEN Rejected(400, DateRejection(request.investment_date, now))
        ELSE IF request.fund1_code \notin DOMAIN store
        THEN Rejected(404, "Fund 1 not found")
        ELSE IF request.fund2_code \notin DOMAIN store
        THEN Rejected(404, "Fund 2 not found")
        ELSE Compute(store, request)

(* ------------------------------- scorer -------------------------------- *)

\* A metrics bag is a function from the keys it holds to their values.
\* Fractions are kept in hundredths (cagr, rolling_3y, max_drawdown,
\* volatility: 0.15 is 15), ratios in tenths (sharpe, sortino, calmar_ratio,
\* gain_to_pain_ratio: 0.5 is 5), the other metrics as they are.

\* metrics.get(key, 0) and metrics.get(key): a missing key is falsy like 0.
Get(metrics, key) == IF key \in DOMAIN metrics THEN metrics[key] ELSE 0

\* not metrics or not metrics.get('is_statistically_reliable')
Unreliable(metrics) ==
    \/ DOMAIN metrics = {}
    \/ "is_statistically_reliable" \notin DOMAIN metrics
    \/ ~metrics["is_statistically_reliable"]

CagrPoints(cagr) ==
    IF cagr = 0 THEN 0
    ELSE IF cagr > 15 THEN 20
    ELSE IF cagr > 12 THEN 15
    ELSE IF cagr > 10 THEN 10
    ELSE IF cagr > 8 THEN 5
    ELSE 0

Rolling3yPoints(rolling_3y) ==
    IF rolling_3y = 0 THEN 0
    ELSE IF rolling_3y > 15 THEN 10
    ELSE IF rolling_3y > 12 THEN 7
    ELSE IF rolling_3y > 10 THEN 5
    ELSE 0

ConsistencyPoints(consistency) ==
    IF consistency = 0 THEN 0
    ELSE IF consistency > 70 THEN 10
    ELSE IF consistency > 60 THEN 7
    ELSE IF consistency > 50 THEN 5
    ELSE 0

SharpePoints(sharpe) ==
    IF sharpe = 0 THEN 0
    ELSE IF sharpe > 20 THEN 15
    ELSE IF sharpe > 10 THEN 10
    ELSE IF sharpe > 5 THEN 5
    ELSE 0

\* Variant: the drawdown bands are read as magnitudes.
MaxDrawdownPoints_Magnitude(max_dd) ==
    IF max_dd = 0 THEN 0
    ELSE IF max_dd > 20 THEN 10
    ELSE IF max_dd > 30 THEN 5
    ELSE 0

MaxDrawdownPoints(max_dd) ==
    IF max_dd = 0 THEN 0
    ELSE IF max_dd > -20 THEN 10
    ELSE IF max_dd > -30 THEN 5
    ELSE 0

SortinoPoints(sortino) ==
    IF sortino = 0 THEN 0
    ELSE IF sortino > 20 THEN 5
    ELSE IF sortino > 10 THEN 3
    ELSE 0

CalmarPoints(calmar) ==
    IF calmar = 0 THEN 0
    ELSE IF calmar > 20 THEN 10
    ELSE IF calmar > 10 THEN 7
    ELSE IF calmar > 5 THEN 5
    ELSE 0

GainToPainPoints(gain_to_pain) ==
    IF gain_to_pain = 0 THEN 0
    ELSE IF gain_to_pain > 20 THEN 10
    ELSE IF gain_to_pain > 10 THEN 5
    ELSE 0

PositiveMonthsPoints(pos_months) ==
    IF pos_months = 0 THEN 0
    ELSE IF pos_months > 65 THEN 5
    ELSE IF pos_months > 55 THEN 3
    ELSE 0

UlcerPoints(ulcer) ==
    IF ulcer = 0 THEN 0
    ELSE IF ulcer < 5 THEN 5
    ELSE IF ulcer < 10 THEN 3
    ELSE 0

\* min(a, b)
Least(a, b) == IF a <= b THEN a ELSE b

calculate_composite_score(metrics) ==
    IF Unreliable(metrics) THEN 0
    ELSE LET score ==
                 CagrPoints(Get(metrics, "cagr"))
                     + Rolling3yPoints(Get(metrics, "rolling_3y"))
                     + ConsistencyPoints(Get(metrics, "consistency_score"))
                     + SharpePoints(Get(metrics, "sharpe"))
                     + MaxDrawdownPoints(Get(metrics, "max_drawdown"))
                     + SortinoPoints(Get(metrics, "sortino"))
                     + CalmarPoints(Get(metrics, "calmar_ratio"))
                     + GainToPainPoints(Get(metrics, "gain_to_pain_ratio"))
                     + PositiveMonthsPoints(Get(metrics, "positive_months_pct"))
                     + UlcerPoints(Get(metrics, "ulcer_index"))
         IN  Least(score, 100)

\* Variant: the last band starts at 20.
VerdictLabel_LowBand20(score) ==
    IF score >= 75 THEN "absolute fire"
    ELSE IF score >= 60 THEN "fire"
    ELSE IF score >= 40 THEN "pretty good"
    ELSE IF score >= 20 THEN "meh, could be better"
    ELSE "nah, skip this one"

\* Determine verdict
VerdictLabel(score) ==
    IF score >= 75 THEN "absolute fire"
    ELSE IF score >= 60 THEN "fire"
    ELSE IF score >= 40 THEN "pretty good"
    ELSE IF score >= 25 THEN "meh, could be better"
    ELSE "nah, skip this one"

\* pros.append(text) if condition
When(condition, text) == IF condition THEN <<text>> ELSE <<>>

\* seq[:n]
Take(seq, n) == SubSeq(seq, 1, Least(Len(seq), n))

generate_verdict(metrics) ==
    IF Unreliable(metrics)
    THEN [verdict |-> "insufficient data",
          score |-> 0,
          pros |-> <<"New fund - potential opportunity">>,
          cons |-> <<"Limited track record", "Cannot assess consistency">>]
    ELSE LET score == calculate_composite_score(metrics)
             cagr == Get(metrics, "cagr")
             sharpe == Get(metrics, "sharpe")
             consistency == Get(metrics, "consistency_score")
             calmar == Get(metrics, "calmar_ratio")
             max_dd == Get(metrics, "max_drawdown")
             volatility == Get(metrics, "volatility")
             ulcer == Get(metrics, "ulcer_index")
             found_pros ==
                 When(cagr # 0 /\ cagr > 12, "Strong returns")
                     \o When(sharpe # 0 /\ sharpe > 10, "Good risk-adjusted returns")
                     \o When(consistency # 0 /\ consistency > 60, "Consistent performer")
                     \o When(calmar # 0 /\ calmar > 10, "Good downside protection")
             pros == IF found_pros = <<>> THEN <<"Active management approach">>
                     ELSE found_pros
             found_cons ==
                 When(cagr # 0 /\ cagr < 8, "Below-average returns")
                     \o When(max_dd # 0 /\ max_dd < -30, "High drawdown")
                     \o When(volatility # 0 /\ volatility > 25, "High volatility")
                     \o When(ulcer # 0 /\ ulcer > 10, "Prolonged drawdowns")
             cons == IF found_cons = <<>>
                     THEN <<"Past performance doesn't guarantee future results">>
                     ELSE found_cons
         IN  [verdict |-> VerdictLabel(score),
              score |-> score,
              pros |-> Take(pros, 4),
              cons |-> Take(cons, 4)]

(* ------------------------------- catalog ------------------------------- *)

\* A string is the sequence of its characters.
LowerCase ==
    [A |-> "a", B |-> "b", D |-> "d", E |-> "e", H |-> "h", L |-> "l",
     P |-> "p", Q |-> "q", T |-> "t", V |-> "v"]

\* str.lower()
lower(str) ==
    [i \in 1..Len(str) |-> IF str[i] \in DOMAIN LowerCase THEN LowerCase[str[i]]
                                                            ELSE str[i]]

\* sub in str
Contains(str, sub) ==
    \E i \in 0..(Len(str) - Len(sub)) : SubSeq(str, i + 1, i + Len(sub)) = sub

\* data.get("score") of a Fund Record: a missing, null or empty object is falsy.
NoScore == [key \in {} |-> 0]

\* {}
EmptyDict == [key \in {} |-> 0]

\* x["score"]["total"] if x.get("score") else x["composite_score"]
ScoreOrComposite(x) ==
    IF "score" \in DOMAIN x /\ DOMAIN x.score # {} THEN x.score.total
    ELSE x.composite_score

\* Keys are compared as Python compares tuples.
KeyLess(k1, k2) == k1[1] < k2[1] \/ (k1[1] = k2[1] /\ k1[2] < k2[2])

\* list.sort(key=..., reverse=True) is stable: entries with equal keys keep
\* the order in which they were appended.
RECURSIVE InsertKeyed(_, _)
InsertKeyed(sorted, pair) ==
    IF sorted = <<>> THEN <<pair>>
    ELSE IF KeyLess(Head(sorted)[1], pair[1])
         THEN <<pair>> \o sorted
         ELSE <<Head(sorted)>> \o InsertKeyed(Tail(sorted), pair)

RECURSIVE SortKeyedDesc(_)
SortKeyedDesc(pairs) ==
    IF pairs = <<>> THEN <<>>
    ELSE InsertKeyed(SortKeyedDesc(SubSeq(pairs, 1, Len(pairs) - 1)),
                     pairs[Len(pairs)])

\* The entries of a sorted list of <<key, entry>> pairs.
Entries(pairs) == [i \in 1..Len(pairs) |-> pairs[i][2]]

\* key=lambda x: (score.total or composite_score, x["cagr"] or 0)
SearchKey(x) == <<ScoreOrComposite(x), x.cagr>>

\* key=lambda x: score.total or composite_score
RankKey(x) == <<ScoreOrComposite(x), 0>>

\* FUNDS_DATA is the sequence of its items, in the order of
\* FUNDS_DATA.items(): each item carries the name (the key) and the data.

\* data.get("metrics", {})
MetricsOf(data) == IF "metrics" \in DOMAIN data THEN data.metrics ELSE EmptyDict

\* metrics.get("is_statistically_reliable", False)
IsReliable(metrics) == ~Unreliable(metrics)

search_funds(catalog, q, reliable_only, min_age, min_cagr) ==
    IF Len(q) < 2 THEN [query |-> q, results |-> <<>>]
    ELSE LET query == lower(q)
             Keep(item) ==
                 LET metrics == MetricsOf(item.data)
                     fund_age == Get(metrics, "fund_age_years")
                     cagr == Get(metrics, "cagr")
                 IN  /\ Contains(lower(item.name), query)
                     /\ ~(reliable_only /\ ~IsReliable(metrics))
                     /\ ~(min_age > 0 /\ (fund_age = 0 \/ fund_age < min_age))
                     /\ ~(min_cagr > 0 /\ (cagr = 0 \/ cagr < min_cagr))
             Entry(item) ==
                 LET metrics == MetricsOf(item.data)
                 IN  [name |-> item.name,
                      code |-> item.data.canonical_code,
                      risk |-> item.data.riskometer,
                      main_category |-> item.data.main_category,
                      cagr |-> Get(metrics, "cagr"),
                      fund_age |-> Get(metrics, "fund_age_years"),
                      is_reliable |-> IsReliable(metrics),
                      composite_score |-> calculate_composite_score(metrics),
                      score |-> item.data.score]
             kept == SelectSeq(catalog, Keep)
             results == [i \in 1..Len(kept) |->
                             <<SearchKey(Entry(kept[i])), Entry(kept[i])>>]
         IN  [query |-> q, results |-> Take(Entries(SortKeyedDesc(results)), 20)]

get_all_funds(catalog, reliable_only) ==
    LET Keep(item) == ~(reliable_only /\ ~IsReliable(MetricsOf(item.data)))
        Entry(item) ==
            LET metrics == MetricsOf(item.data)
            IN  [name |-> item.name,
                 code |-> item.data.canonical_code,
                 risk |-> item.data.riskometer,
                 cagr |-> Get(metrics, "cagr"),
                 fund_age |-> Get(metrics, "fund_age_years"),
                 is_reliable |-> IsReliable(metrics),
                 composite_score |-> calculate_composite_score(metrics)]
        kept == SelectSeq(catalog, Keep)
        results == [i \in 1..Len(kept) |-> <<RankKey(Entry(kept[i])), Entry(kept[i])>>]
        funds == Entries(SortKeyedDesc(results))
    IN  [total |-> Len(funds),
         reliable_count |-> Cardinality({i \in 1..Len(funds) : funds[i].is_reliable}),
         funds |-> funds]

\* category: str = None, risk: str = None
NoFilter == <<>>

get_top_funds(catalog, limit, category, risk) ==
    LET Keep(item) ==
            /\ IsReliable(MetricsOf(item.data))
            /\ ~(category # NoFilter /\ lower(category) # lower(item.data.main_category))
            /\ ~(risk # NoFilter /\ ~Contains(lower(item.data.riskometer), lower(risk)))
        Entry(item) ==
            LET metrics == MetricsOf(item.data)
            IN  [name |-> item.name,
                 code |-> item.data.canonical_code,
                 risk |-> item.data.riskometer,
                 main_category |-> item.data.main_category,
                 cagr |-> Get(metrics, "cagr"),
                 sharpe |-> Get(metrics, "sharpe"),
                 composite_score |-> calculate_composite_score(metrics),
                 score |-> item.data.score,
                 fund_age |-> Get(metrics, "fund_age_years")]
        kept == SelectSeq(catalog, Keep)
        results == [i \in 1..Len(kept) |-> <<RankKey(Entry(kept[i])), Entry(kept[i])>>]
        sorted == Entries(SortKeyedDesc(results))
    IN  [count |-> Len(sorted), results |-> Take(sorted, limit)]

get_fund_details(catalog, code) ==
    LET found == SelectSeq(catalog, LAMBDA item : item.data.canonical_code = code)
    IN  IF found = <<>> THEN HTTPException(404, "fund not found", NoDate)
        ELSE LET data == found[1].data
                 metrics == MetricsOf(data)
             IN  [status |-> 200,
                  name |-> found[1].name,
                  code |-> code,
                  risk |-> data.riskometer,
                  main_category |-> data.main_category,
                  fund_age |-> Get(metrics, "fund_age_years"),
                  is_reliable |-> IsReliable(metrics),
                  score |-> data.score,
                  metrics |-> metrics,
                  ai_verdict |-> generate_verdict(metrics)]

\* score_obj.get("total") if score_obj else calculate_composite_score(metrics)
FundScore(data) ==
    IF DOMAIN data.score # {} THEN data.score.total
    ELSE calculate_composite_score(MetricsOf(data))

get_recommendations(catalog, fund_code, limit, min_score_diff) ==
    LET found == SelectSeq(catalog, LAMBDA item : item.data.canonical_code = fund_code)
    IN  IF found = <<>> THEN HTTPException(404, "Fund not found", NoDate)
        ELSE LET user_fund == found[1].data
                 user_fund_name == found[1].name
                 user_score == FundScore(user_fund)
                 Keep(item) ==
                     /\ item.name # user_fund_name
                     /\ IsReliable(MetricsOf(item.data))
                     /\ item.data.main_category = user_fund.main_category
                     /\ ~(FundScore(item.data) - user_score < min_score_diff)
                 Entry(item) ==
                     LET score_diff == FundScore(item.data) - user_score
                     IN  [name |-> item.name,
                          code |-> item.data.canonical_code,
                          main_category |-> item.data.main_category,
                          score |-> [total |-> FundScore(item.data)],
                          score_difference |-> score_diff,
                          switch_potential |->
                              IF score_diff >= 15 THEN "High"
                              ELSE IF score_diff >= 10 THEN "Moderate"
                              ELSE "Low",
                          risk |-> item.data.riskometer,
                          cagr |-> Get(MetricsOf(item.data), "cagr")]
                 kept == SelectSeq(catalog, Keep)
                 recommendations ==
                     [i \in 1..Len(kept) |->
                          <<(<<Entry(kept[i]).score_difference, 0>>), Entry(kept[i])>>]
                 sorted == Entries(SortKeyedDesc(recommendations))
             IN  [status |-> 200,
                  user_fund |-> [name |-> user_fund_name,
                                 code |-> fund_code,
                                 score |-> [total |-> user_score],
                                 risk |-> user_fund.riskometer],
                  recommendations_count |-> Len(sorted),
                  recommendations |-> Take(sorted, limit)]

(* --------------------------- catalog inputs ---------------------------- *)

\* The i-th of a metric's levels, the list starting over when it is shorter.
Pick(levels, i) == levels[((i - 1) % Len(levels)) + 1]

\* Values around every band edge of the scorer and of the verdict rules; the
\* first level of each metric earns its most points.
MetricKeys ==
    {"is_statistically_reliable", "cagr", "rolling_3y", "consistency_score",
     "positive_months_pct", "volatility", "fund_age_years", "sharpe",
     "max_drawdown", "sortino", "calmar_ratio", "gain_to_pain_ratio",
     "ulcer_index"}

Profile(a, b, reliable) ==
    [is_statistically_reliable |-> reliable,
     cagr |-> Pick(<<16, 0, 13, 11, 9, 7, -5>>, a),
     rolling_3y |-> Pick(<<16, 0, 13, 11, 10>>, a),
     consistency_score |-> Pick(<<71, 0, 61, 51, 50, 70>>, a),
     positive_months_pct |-> Pick(<<66, 0, 56, 55>>, a),
     volatility |-> Pick(<<10, 25, 26>>, a),
     fund_age_years |-> Pick(<<10, 0, 3>>, a),
     sharpe |-> Pick(<<21, 0, 11, 6, 5, 20>>, b),
     max_drawdown |-> Pick(<<-10, 0, -20, -25, -30, -35, 5>>, b),
     sortino |-> Pick(<<21, 0, 11, 10>>, b),
     calmar_ratio |-> Pick(<<21, 0, 11, 6, 5>>, b),
     gain_to_pain_ratio |-> Pick(<<21, 0, 11, 10>>, b),
     ulcer_index |-> Pick(<<4, 0, 5, 9, 10, 11>>, b)]

\* The bag with only some of the keys.
Restrict(bag, keys) == [key \in keys |-> bag[key]]

KeySets ==
    {MetricKeys,
     MetricKeys \ {"is_statistically_reliable"},
     {"is_statistically_reliable", "cagr", "sharpe"}}

MetricsBags ==
    {Restrict(Profile(a, b, reliable), keys) :
        a \in 1..ProfileLevels, b \in 1..ProfileLevels,
        reliable \in BOOLEAN, keys \in KeySets}
        \cup {EmptyDict}

\* Bags of ranked funds: the best one, and two that earn the same points
\* with different CAGR.
RankedBags ==
    {Restrict(Profile(1, 1, TRUE), MetricKeys),
     Restrict(Profile(1, 2, TRUE), {"is_statistically_reliable", "cagr", "sharpe"}),
     Restrict(Profile(3, 4, TRUE), {"is_statistically_reliable", "cagr", "sharpe"})}

Scores == {NoScore, [total |-> 10], [total |-> 90]}

\* What tells the funds of one catalog apart is given by their position.
Names == << <<"A", "l", "p">>, <<"a", "L", "t">>, <<"B", "e", "t">> >>

Categories == << <<"E", "q">>, <<"E", "q">>, <<"D", "e">> >>

Risks == << <<"V", "H">>, <<"L", "o">>, <<"H", "i">> >>

Fund(i, metrics, score) ==
    [name |-> Names[i],
     data |-> [canonical_code |-> i,
               main_category |-> Categories[i],
               riskometer |-> Risks[i],
               metrics |-> metrics,
               score |-> score]]

\* A Fund Record without a metrics bag.
BareFund ==
    [name |-> Names[1],
     data |-> [canonical_code |-> 1,
               main_category |-> Categories[1],
               riskometer |-> Risks[1],
               score |-> NoScore]]

\* The catalogs load_data can leave behind: none, one fund with any metrics
\* bag, or several ranked funds in any order.
Catalogs ==
    {<<>>, <<BareFund>>}
        \cup {<<Fund(1, metrics, NoScore)>> : metrics \in MetricsBags}
        \cup UNION {{[i \in 1..n |-> Fund(i, pick[i][1], pick[i][2])] :
                         pick \in [1..n -> RankedBags \X Scores]} : n \in 2..MaxFunds}

SampleStore ==
    [scheme_code \in StoredCodes |->
        [data |-> <<[date |-> DateStr(20, "padded"), nav |-> 10],
                    [date |-> DateStr(40, "padded"), nav |-> 20]>>]]

SampleCatalog ==
    <<Fund(1, Restrict(Profile(1, 1, TRUE), MetricKeys), NoScore),
      Fund(2, Restrict(Profile(3, 4, TRUE), MetricKeys), [total |-> 90])>>

Queries == {<<"a">>, <<"a", "l">>, <<"E", "T">>}

(* ------------------------------ behaviour ------------------------------ *)

ValidAmounts == {a \in Amounts : MinAmount <= a /\ a <= MaxAmount}

\* Scheme 1 and scheme 2 range over the same lists of observations, so it is
\* enough that scheme 1 (or the missing scheme 3) is the user's fund and
\* scheme 2 (or scheme 3) the recommended one.
Requests ==
    [fund1_code : {1, 3}, fund2_code : {2, 3},
     investment_date : RequestDates, investment_amount : Amounts]

\* datetime.now(): the first and the last instant of today.
Clock == {Today * TicksPerDay, Today * TicksPerDay + TicksPerDay - 1}

HelperCodes == {1, 3}

NoArgs == [none |-> TRUE]

\* load_data() and load_nav_data() have run; no request is being handled.
Init ==
    /\ \/ NAV_DATA_MAP \in Stores /\ FUNDS_DATA = SampleCatalog
       \/ NAV_DATA_MAP = SampleStore /\ FUNDS_DATA \in Catalogs
    /\ op = "idle"
    /\ args = NoArgs
    /\ result = None
    /\ calls = <<>>

GetNavOnDate ==
    /\ op = "idle"
    /\ \E scheme_code \in HelperCodes, investment_date \in ResolverDates :
          /\ op' = "get_nav_on_date"
          /\ args' = [scheme_code |-> scheme_code, investment_date |-> investment_date]
          /\ result' = get_nav_on_date(NAV_DATA_MAP, scheme_code, investment_date)
    /\ UNCHANGED <<NAV_DATA_MAP, FUNDS_DATA, calls>>

GetCurrentNav ==
    /\ op = "idle"
    /\ \E scheme_code \in HelperCodes :
          /\ op' = "get_current_nav"
          /\ args' = [scheme_code |-> scheme_code]
          /\ result' = get_current_nav(NAV_DATA_MAP, scheme_code)
          /\ NAV_DATA_MAP' = AfterSorted(NAV_DATA_MAP, scheme_code)
    /\ UNCHANGED <<FUNDS_DATA, calls>>

CalculateReturns ==
    /\ op = "idle"
    /\ \E scheme_code \in HelperCodes, investment_amount \in ValidAmounts,
          investment_date \in ResolverDates :
          /\ op' = "calculate_returns"
          /\ args' = [scheme_code |-> scheme_code,
                      investment_amount |-> investment_amount,
                      investment_date |-> investment_date]
          /\ result' = calculate_returns(NAV_DATA_MAP, scheme_code, investment_amount,
                                         investment_date)
          /\ NAV_DATA_MAP' = AfterSorted(NAV_DATA_MAP, scheme_code)
    /\ UNCHANGED <<FUNDS_DATA, calls>>

CompareInvestment ==
    /\ op = "idle"
    /\ \E request \in Requests, now \in Clock :
          LET outcome == compare_investment(NAV_DATA_MAP, request, now)
          IN  /\ op' = "compare_investment"
              /\ args' = [request |-> request, now |-> now]
              /\ result' = outcome.response
              /\ calls' = outcome.calls
              /\ NAV_DATA_MAP' = AfterSorted(AfterSorted(NAV_DATA_MAP, request.fund1_code),
                                             request.fund2_code)
    /\ UNCHANGED FUNDS_DATA

CalculateCompositeScore ==
    /\ op = "idle"
    /\ \E i \in 1..Len(FUNDS_DATA) :
          LET metrics == MetricsOf(FUNDS_DATA[i].data)
          IN  /\ op' = "calculate_composite_score"
              /\ args' = [metrics |-> metrics]
              /\ result' = [score |-> calculate_composite_score(metrics)]
    /\ UNCHANGED <<NAV_DATA_MAP, FUNDS_DATA, calls>>

GenerateVerdict ==
    /\ op = "idle"
    /\ \E i \in 1..Len(FUNDS_DATA) :
          LET metrics == MetricsOf(FUNDS_DATA[i].data)
          IN  /\ op' = "generate_verdict"
              /\ args' = [metrics |-> metrics]
              /\ result' = generate_verdict(metrics)
    /\ UNCHANGED <<NAV_DATA_MAP, FUNDS_DATA, calls>>

SearchFunds ==
    /\ op = "idle"
    /\ \E q \in Queries, reliable_only \in BOOLEAN, min_age \in {0, 5},
          min_cagr \in {0, 12} :
          /\ op' = "search_funds"
          /\ args' = [q |-> q, reliable_only |-> reliable_only,
                      min_age |-> min_age, min_cagr |-> min_cagr]
          /\ result' = search_funds(FUNDS_DATA, q, reliable_only, min_age, min_cagr)
    /\ UNCHANGED <<NAV_DATA_MAP, FUNDS_DATA, calls>>

GetAllFunds ==
    /\ op = "idle"
    /\ \E reliable_only \in BOOLEAN :
          /\ op' = "get_all_funds"
          /\ args' = [reliable_only |-> reliable_only]
          /\ result' = get_all_funds(FUNDS_DATA, reliable_only)
    /\ UNCHANGED <<NAV_DATA_MAP, FUNDS_DATA, calls>>

GetTopFunds ==
    /\ op = "idle"
    /\ \E limit \in {1, 10}, category \in {NoFilter, <<"e", "Q">>},
          risk \in {NoFilter, <<"h">>} :
          /\ op' = "get_top_funds"
          /\ args' = [limit |-> limit, category |-> category, risk |-> risk]
          /\ result' = get_top_funds(FUNDS_DATA, limit, category, risk)
    /\ UNCHANGED <<NAV_DATA_MAP, FUNDS_DATA, calls>>

GetFundDetails ==
    /\ op = "idle"
    /\ \E code \in 1..2 :
          /\ op' = "get_fund_details"
          /\ args' = [code |-> code]
          /\ result' = get_fund_details(FUNDS_DATA, code)
    /\ UNCHANGED <<NAV_DATA_MAP, FUNDS_DATA, calls>>

GetRecommendations ==
    /\ op = "idle"
    /\ \E fund_code \in 1..2, min_score_diff \in {5, 80} :
          /\ op' = "get_recommendations"
          /\ args' = [fund_code |-> fund_code, min_score_diff |-> min_score_diff]
          /\ result' = get_recommendations(FUNDS_DATA, fund_code, 5, min_score_diff)
    /\ UNCHANGED <<NAV_DATA_MAP, FUNDS_DATA, calls>>

\* The value is returned to the caller and dropped: nothing of a request
\* outlives it.
Return ==
    /\ op # "idle"
    /\ op' = "idle"
    /\ args' = NoArgs
    /\ result' = None
    /\ calls' = <<>>
    /\ UNCHANGED <<NAV_DATA_MAP, FUNDS_DATA>>

Next ==
    \/ GetNavOnDate
    \/ GetCurrentNav
    \/ CalculateReturns
    \/ CompareInvestment
    \/ CalculateCompositeScore
    \/ GenerateVerdict
    \/ SearchFunds
    \/ GetAllFunds
    \/ GetTopFunds
    \/ GetFundDetails
    \/ GetRecommendations
    \/ Return

Spec == Init /\ [][Next]_vars

(* ------------------------- vocabulary of the claims -------------------- *)

Max(S) == CHOOSE x \in S : \A y \in S : x >= y

Stored(code) == code \in DOMAIN NAV_DATA_MAP

Series(code) == NAV_DATA_MAP[code].data

HasData(code) == Stored(code) /\ Series(code) # <<>>

DaysOf(code) == {Series(code)[i].date.day : i \in 1..Len(Series(code))}

FirstDay(code) == Min(DaysOf(code))

LastDay(code) == Max(DaysOf(code))

UniqueDates(code) ==
    \A i, j \in 1..Len(Series(code)) :
        Series(code)[i].date.day = Series(code)[j].date.day => i = j

\* The greatest stored day of the scheme that is not after day.
DayAtOrBefore(code, day) == Max({d \in DaysOf(code) : d <= day})

Comparing == op = "compare_investment"

Succeeded == Comparing /\ result.status = 200

\* The request passes every validation of compare_investment and names two
\* schemes of the store, so that the returns of fund 1 are computed.
Admitted ==
    /\ Comparing
    /\ args.request.investment_amount >= MinAmount
    /\ args.request.investment_amount <= MaxAmount
    /\ ParseOk(args.request.investment_date)
    /\ args.request.investment_date.day + MinAgeDays <= args.now \div TicksPerDay
    /\ Stored(args.request.fund1_code)
    /\ Stored(args.request.fund2_code)

\* The requested day lies before the first observation of the scheme.
PredatesInception(code, date_str) ==
    HasData(code) /\ date_str.day < FirstDay(code)

(* -------------------------------- C1 ----------------------------------- *)

\* C1: whenever fund 2's returns at the requested date fail with
\* BEFORE_FUND_START carrying start date S and the comparison succeeds, both
\* returned legs were computed with purchase date S, and the adjustment block
\* has adjusted = true, adjusted_date = S = fund2_start_date and
\* original_date = the requested date.
C1_RealignedLegsShareStartDate ==
    (Succeeded /\ PredatesInception(args.request.fund2_code, args.request.investment_date))
    => LET request == args.request
           S == DateStr(FirstDay(request.fund2_code), "padded")
       IN  /\ result.fund1.investment.date = S
           /\ result.fund2.investment.date = S
           /\ result.fund1.scheme_code = request.fund1_code
           /\ result.fund2.scheme_code = request.fund2_code
           /\ Len(calls) = 4
           /\ calls[3] = Invocation(request.fund2_code, request.investment_amount, S)
           /\ calls[4] = Invocation(request.fund1_code, request.investment_amount, S)
           /\ result.adjustment.adjusted
           /\ result.adjustment.adjusted_date = S
           /\ result.adjustment.fund2_start_date = S
           /\ result.adjustment.original_date = request.investment_date

\* A comparison realigned from a requested date written without padding.
C1_Witness ==
    /\ Succeeded
    /\ PredatesInception(args.request.fund2_code, args.request.investment_date)
    /\ args.request.investment_date.form = "unpadded"
    /\ result.adjustment.adjusted
    /\ result.adjustment.adjusted_date # args.request.investment_date

(* -------------------------------- C2 ----------------------------------- *)

\* C2: if fund 1's returns at the requested date fail with BEFORE_FUND_START,
\* the operation ends in a client error that names fund 1's start date;
\* calculate_returns was invoked once, for fund 1, and never for fund 2.
C2_Fund1InceptionIsTerminal ==
    (Admitted /\ PredatesInception(args.request.fund1_code, args.request.investment_date))
    => /\ result.status = 400
       /\ result.detail = "started on"
       /\ result.fund_start_date = DateStr(FirstDay(args.request.fund1_code), "padded")
       /\ calls = <<Invocation(args.request.fund1_code, args.request.investment_amount,
                               args.request.investment_date)>>

\* Fund 1 starts after the requested date while fund 2 has data on it.
C2_Witness ==
    /\ Admitted
    /\ PredatesInception(args.request.fund1_code, args.request.investment_date)
    /\ HasData(args.request.fund2_code)
    /\ ~PredatesInception(args.request.fund2_code, args.request.investment_date)
    /\ result.status = 400

(* -------------------------------- C3 ----------------------------------- *)

ResolvingDate ==
    /\ op = "get_nav_on_date"
    /\ ParseOk(args.investment_date)
    /\ HasData(args.scheme_code)

\* C3: for a scheme with a non-empty list of unique dates and a target day D
\* not before its first day, get_nav_on_date returns the observation with the
\* greatest day <= D, with its stored NAV, and exact_match exactly when that
\* day is D.
C3_ResolvesGreatestDayNotAfter ==
    (/\ ResolvingDate
     /\ UniqueDates(args.scheme_code)
     /\ args.investment_date.day >= FirstDay(args.scheme_code))
    => LET data == Series(args.scheme_code)
           day == DayAtOrBefore(args.scheme_code, args.investment_date.day)
       IN  /\ result.kind = "nav"
           /\ result.date.day = day
           /\ \E i \in 1..Len(data) :
                 data[i].date = result.date /\ data[i].nav = result.nav
           /\ result.exact_match <=> (day = args.investment_date.day)

\* A day strictly between two observations stored latest first, resolved to
\* the earlier one.
C3_Witness ==
    /\ ResolvingDate
    /\ UniqueDates(args.scheme_code)
    /\ Len(Series(args.scheme_code)) = 2
    /\ Series(args.scheme_code)[1].date.day > args.investment_date.day
    /\ Series(args.scheme_code)[2].date.day < args.investment_date.day
    /\ result.kind = "nav"
    /\ ~result.exact_match

(* -------------------------------- C4 ----------------------------------- *)

Calculating ==
    /\ op = "calculate_returns"
    /\ ParseOk(args.investment_date)

\* C6: for every successful calculate_returns whose divisions are exact,
\* units = amount / purchase_nav, current value = units * latest_nav,
\* absolute = current value - amount and percentage = absolute / amount * 100,
\* where purchase_nav is the NAV of an observation of the greatest day not
\* after the purchase day and latest_nav the NAV of one of the maximum day.
C6_ReturnArithmetic ==
    (/\ Calculating
     /\ result.kind = "returns"
     /\ args.investment_amount % 100 = 0
     /\ args.investment_amount % result.investment.purchase_nav = 0)
    => LET amount == args.investment_amount
           data == Series(args.scheme_code)
           bought == DayAtOrBefore(args.scheme_code, args.investment_date.day)
       IN  /\ \E i \in 1..Len(data) :
                 /\ data[i].date.day = bought
                 /\ data[i].nav = result.investment.purchase_nav
           /\ \E j \in 1..Len(data) :
                 /\ data[j].date.day = LastDay(args.scheme_code)
                 /\ data[j].nav = result.current.nav
           /\ result.investment.amount = amount
           /\ result.metrics.units * result.investment.purchase_nav = amount
           /\ result.current.value = result.metrics.units * result.current.nav
           /\ result.returns.absolute = result.current.value - amount
           /\ result.returns.percentage * (amount \div 100) = result.returns.absolute

\* The largest amount bought at 20 and worth half of it at 10.
C6_Witness ==
    /\ Calculating
    /\ result.kind = "returns"
    /\ args.investment_amount = MaxAmount
    /\ result.investment.purchase_nav = 20
    /\ result.current.nav = 10
    /\ result.returns.percentage = -50

(* -------------------------------- C7 ----------------------------------- *)

\* C7: calculate_returns with a purchase day equal to the scheme's latest
\* observation day and amount > 0 yields current value = amount, absolute
\* return 0, percentage return 0 and annualized return (xirr) exactly 0.
C7_SingleDayHold ==
    (/\ Calculating
     /\ HasData(args.scheme_code)
     /\ args.investment_amount > 0
     /\ args.investment_date.day = LastDay(args.scheme_code))
    => /\ result.kind = "returns"
       /\ result.current.value = args.investment_amount
       /\ result.returns.absolute = 0
       /\ result.returns.percentage = 0
       /\ result.returns.xirr = XirrZero
       /\ result.metrics.duration_days = 0

\* A purchase on the latest day of a scheme that has an earlier observation
\* at another NAV.
C7_Witness ==
    /\ Calculating
    /\ HasData(args.scheme_code)
    /\ args.investment_date.day = LastDay(args.scheme_code)
    /\ FirstDay(args.scheme_code) < LastDay(args.scheme_code)
    /\ \E i \in 1..Len(Series(args.scheme_code)) :
          Series(args.scheme_code)[i].nav # result.current.nav
    /\ result.kind = "returns"

(* -------------------------------- C8 ----------------------------------- *)

\* C8: in every successful comparison, value_difference,
\* percentage_difference and xirr_difference are fund 2's field minus fund
\* 1's field of the two returned results, and is_fund2_better holds exactly
\* when value_difference > 0.
C8_DifferencesAreFund2MinusFund1 ==
    Succeeded
    => /\ result.comparison.value_difference =
              result.fund2.current.value - result.fund1.current.value
       /\ result.comparison.percentage_difference =
              result.fund2.returns.percentage - result.fund1.returns.percentage
       /\ result.comparison.xirr_difference =
              [minuend |-> result.fund2.returns.xirr,
               subtrahend |-> result.fund1.returns.xirr]
       /\ result.comparison.is_fund2_better <=> (result.comparison.value_difference > 0)
       /\ result.comparison.is_fund2_better
              <=> (result.fund2.current.value > result.fund1.current.value)

\* Two funds that reached the same value by different routes: not better.
C8_Witness ==
    /\ Succeeded
    /\ result.fund1.current.value = result.fund2.current.value
    /\ result.fund1.current.nav # result.fund2.current.nav
    /\ ~result.comparison.is_fund2_better

(* -------------------------------- C9 ----------------------------------- *)

\* C9: every successful comparison carries an adjustment block; when fund 2's
\* returns at the requested date did not fail with BEFORE_FUND_START,
\* adjusted = false and both legs were computed with the requested date;
\* adjusted = true only when fund 2's first observation day is strictly after
\* the requested day.
C9_AdjustedOnlyWhenFund2StartsLater ==
    Succeeded
    => LET request == args.request
       IN  /\ "adjustment" \in DOMAIN result
           /\ "adjusted" \in DOMAIN result.adjustment
           /\ ~PredatesInception(request.fund2_code, request.investment_date)
                  => /\ ~result.adjustment.adjusted
                     /\ result.fund1.investment.date = request.investment_date
                     /\ result.fund2.investment.date = request.investment_date
                     /\ calls = <<Invocation(request.fund1_code, request.investment_amount,
                                             request.investment_date),
                                  Invocation(request.fund2_code, request.investment_amount,
                                             request.investment_date)>>
           /\ result.adjustment.adjusted
                  => /\ HasData(request.fund2_code)
                     /\ FirstDay(request.fund2_code) > request.investment_date.day

\* A request between two observations of fund 1, fund 2 having started before.
C9_Witness ==
    /\ Succeeded
    /\ ~result.adjustment.adjusted
    /\ ~result.fund1.investment.exact_date_match
    /\ FirstDay(args.request.fund2_code) < args.request.investment_date.day

(* -------------------------------- C10 ---------------------------------- *)

AmountMessages ==
    {"Investment amount must be positive", "Minimum investment amount",
     "Maximum investment amount"}

RejectedForAmount ==
    /\ result.status = 400
    /\ result.detail \in AmountMessages

\* C10: compare_investment accepts an amount equal to the configured minimum
\* and one equal to the configured maximum, and rejects with a validation
\* error every amount that is <= 0, below the minimum or above the maximum,
\* without computing anything.
C10_AmountBounds ==
    Comparing
    => LET amount == args.request.investment_amount
       IN  /\ (amount <= 0 \/ amount < MinAmount \/ amount > MaxAmount)
                  => (RejectedForAmount /\ calls = <<>>)
           /\ (amount = MinAmount \/ amount = MaxAmount)
                  => /\ ~RejectedForAmount
                     /\ Admitted => calls # <<>>

\* A comparison computed for the largest amount allowed.
C10_Witness ==
    /\ Succeeded
    /\ args.request.investment_amount = MaxAmount

(* -------------------------------- C11 ---------------------------------- *)

DateMessages ==
    {"Invalid date format", "Investment date cannot be today or in the future",
     "Investment date must be at least 1 month old"}

RejectedForDate ==
    /\ result.status = 400
    /\ result.detail \in DateMessages

AmountAccepted ==
    /\ Comparing
    /\ args.request.investment_amount >= MinAmount
    /\ args.request.investment_amount <= MaxAmount

\* The calendar day on which the request is handled.
DayHandled == args.now \div TicksPerDay

\* C11: compare_investment rejects with a validation error every purchase
\* date that does not parse, that is today or later, or that is fewer than 30
\* whole days before today; 29 days before today is rejected and 30 days
\* before today is accepted, at whatever time of day the request is handled.
C11_DateBounds ==
    AmountAccepted
    => LET date == args.request.investment_date
       IN  /\ (\/ ~ParseOk(date)
               \/ date.day >= DayHandled
               \/ date.day > DayHandled - MinAgeDays)
                  => (RejectedForDate /\ calls = <<>>)
           /\ (ParseOk(date) /\ date.day = DayHandled - (MinAgeDays - 1))
                  => RejectedForDate
           /\ (ParseOk(date) /\ date.day <= DayHandled - MinAgeDays)
                  => /\ ~RejectedForDate
                     /\ Admitted => calls # <<>>

\* A purchase exactly 30 days old compared at the first instant of the day.
C11_Witness ==
    /\ Succeeded
    /\ args.request.investment_date.day = DayHandled - MinAgeDays
    /\ args.now % TicksPerDay = 0

(* -------------------------------- C12 ---------------------------------- *)

ValidationMessages == AmountMessages \cup DateMessages

Invalid ==
    /\ Comparing
    /\ \/ args.request.investment_amount <= 0
       \/ args.request.investment_amount < MinAmount
       \/ args.request.investment_amount > MaxAmount
       \/ ~ParseOk(args.request.investment_date)
       \/ args.request.investment_date.day > DayHandled - MinAgeDays

\* C12: a request that violates a validation rule ends in a validation error
\* (HTTP 400 with a validation message) without any invocation of
\* calculate_returns, also when a fund code is absent from the store or the
\* date precedes a fund's first observation.
C12_ValidationBeforeComputation ==
    Invalid
    => /\ result.status = 400
       /\ result.detail \in ValidationMessages
       /\ calls = <<>>

\* An amount below the minimum for a fund that is not in the store, on a date
\* before the other fund started.
C12_Witness ==
    /\ Invalid
    /\ args.request.investment_amount = MinAmount - 1
    /\ ~Stored(args.request.fund1_code)
    /\ PredatesInception(args.request.fund2_code, args.request.investment_date)
    /\ result.status = 400

(* -------------------------------- C13 ---------------------------------- *)

\* The request passes the amount and date validation.
OtherwiseValid ==
    /\ AmountAccepted
    /\ ParseOk(args.request.investment_date)
    /\ args.request.investment_date.day <= DayHandled - MinAgeDays

\* C13: with otherwise valid input, a fund that is absent from the store or
\* whose entry has an empty observation list is reported as HTTP 404, for
\* fund 1 as well as for fund 2 (fund 2 being looked at only when fund 1's
\* returns did not fail for another reason).
C13_NotFoundIs404 ==
    (/\ OtherwiseValid
     /\ \/ ~HasData(args.request.fund1_code)
        \/ /\ ~HasData(args.request.fund2_code)
           /\ ~PredatesInception(args.request.fund1_code, args.request.investment_date))
    => result.status = 404

\* The points of the first band of a table whose edge the value exceeds; a
\* table lists <<edge, points>> from the highest edge down.
RECURSIVE BandAbove(_, _)
BandAbove(value, table) ==
    IF table = <<>> THEN 0
    ELSE IF value > Head(table)[1] THEN Head(table)[2]
    ELSE BandAbove(value, Tail(table))

\* The same for a metric that earns points by staying under an edge; the
\* table lists the lowest edge first.
RECURSIVE BandBelow(_, _)
BandBelow(value, table) ==
    IF table = <<>> THEN 0
    ELSE IF value < Head(table)[1] THEN Head(table)[2]
    ELSE BandBelow(value, Tail(table))

\* The band tables of the scorer, by metric.
BandTables ==
    [cagr |-> << <<15, 20>>, <<12, 15>>, <<10, 10>>, <<8, 5>> >>,
     rolling_3y |-> << <<15, 10>>, <<12, 7>>, <<10, 5>> >>,
     consistency_score |-> << <<70, 10>>, <<60, 7>>, <<50, 5>> >>,
     sharpe |-> << <<20, 15>>, <<10, 10>>, <<5, 5>> >>,
     max_drawdown |-> << <<-20, 10>>, <<-30, 5>> >>,
     sortino |-> << <<20, 5>>, <<10, 3>> >>,
     calmar_ratio |-> << <<20, 10>>, <<10, 7>>, <<5, 5>> >>,
     gain_to_pain_ratio |-> << <<20, 10>>, <<10, 5>> >>,
     positive_months_pct |-> << <<65, 5>>, <<55, 3>> >>]

UlcerTable == << <<5, 5>>, <<10, 3>> >>

\* Points of one metric of a bag: nothing when it is missing or zero.
PointsOf(metrics, key) ==
    IF key \notin DOMAIN metrics \/ metrics[key] = 0 THEN 0
    ELSE IF key = "ulcer_index" THEN BandBelow(metrics[key], UlcerTable)
    ELSE BandAbove(metrics[key], BandTables[key])

RECURSIVE SumOver(_, _)
SumOver(metrics, keys) ==
    IF keys = {} THEN 0
    ELSE LET key == CHOOSE k \in keys : TRUE
         IN  PointsOf(metrics, key) + SumOver(metrics, keys \ {key})

BandSum(metrics) == SumOver(metrics, DOMAIN BandTables \cup {"ulcer_index"})

Scoring == op = "calculate_composite_score"

\* C14: calculate_composite_score returns an integer from 0 to 100: 0 when
\* the metrics are missing or not statistically reliable, and otherwise the
\* sum of the band points of the ten metrics, capped at 100, a missing or
\* zero metric adding nothing.
C14_CompositeScoreIsCappedBandSum ==
    Scoring =>
        /\ result.score \in 0..100
        /\ (DOMAIN args.metrics = {}
                \/ "is_statistically_reliable" \notin DOMAIN args.metrics
                \/ ~args.metrics["is_statistically_reliable"])
               => result.score = 0
        /\ (/\ "is_statistically_reliable" \in DOMAIN args.metrics
            /\ args.metrics["is_statistically_reliable"])
               => result.score = Least(BandSum(args.metrics), 100)

\* A reliable bag without a 3-year rolling return that earns some points.
C14_Witness ==
    /\ Scoring
    /\ "is_statistically_reliable" \in DOMAIN args.metrics
    /\ args.metrics["is_statistically_reliable"]
    /\ "rolling_3y" \notin DOMAIN args.metrics
    /\ result.score > 0
    /\ result.score < 100

Judging == op = "generate_verdict"

\* The five bands of the verdict over a score.
BandLabel(score) ==
    CASE score >= 75 -> "absolute fire"
      [] score >= 60 /\ score < 75 -> "fire"
      [] score >= 40 /\ score < 60 -> "pretty good"
      [] score >= 25 /\ score < 40 -> "meh, could be better"
      [] score < 25 -> "nah, skip this one"

ScoreAndListsAsStated ==
    /\ result.score = calculate_composite_score(args.metrics)
    /\ Len(result.pros) \in 1..4
    /\ Len(result.cons) \in 1..4

\* C15 as stated: for every metrics bag the label of generate_verdict is the
\* band of the composite score, the returned score is the composite score,
\* and pros and cons hold between 1 and 4 entries each.
C15_LabelIsBandOfScore ==
    Judging =>
        /\ result.verdict = BandLabel(calculate_composite_score(args.metrics))
        /\ ScoreAndListsAsStated

\* C15 amended: the label is the band of the composite score for a
\* statistically reliable bag, and the sixth label "insufficient data" for a
\* missing or unreliable one; in both cases the returned score is the
\* composite score, and pros and cons hold between 1 and 4 entries each.
C15_LabelIsBandOfScoreWhenReliable ==
    Judging =>
        /\ IsReliable(args.metrics)
               => result.verdict = BandLabel(calculate_composite_score(args.metrics))
        /\ ~IsReliable(args.metrics) => result.verdict = "insufficient data"
        /\ ScoreAndListsAsStated

\* A reliable bag that scores 0 is told to be skipped, while an unreliable
\* one, which scores 0 as well, is not.
C15_Witness ==
    /\ Judging
    /\ IsReliable(args.metrics)
    /\ result.score = 0
    /\ result.verdict = "nah, skip this one"

Ranking == op \in {"search_funds", "get_all_funds", "get_top_funds"}

\* The list a ranking operation returned.
Ranked == IF op = "get_all_funds" THEN result.funds ELSE result.results

\* The Fund Record of a returned entry.
RecordOf(entry) ==
    (CHOOSE i \in 1..Len(FUNDS_DATA) : FUNDS_DATA[i].name = entry.name)

\* What the ranking is stated to go by: score.total of the Fund Record when
\* it has a score object, its composite score otherwise.
StatedRank(entry) ==
    LET data == FUNDS_DATA[RecordOf(entry)].data
    IN  IF DOMAIN data.score # {} THEN data.score.total
        ELSE calculate_composite_score(MetricsOf(data))

\* C16: search_funds, get_all_funds and get_top_funds return their results
\* in descending order of score.total of the Fund Record when it has a score
\* object and of its composite score otherwise, ties broken by CAGR
\* descending.
C16_RankedByScoreThenCagr ==
    Ranking =>
        \A i, j \in 1..Len(Ranked) :
            i < j =>
                \/ StatedRank(Ranked[i]) > StatedRank(Ranked[j])
                \/ /\ StatedRank(Ranked[i]) = StatedRank(Ranked[j])
                   /\ Ranked[i].cagr >= Ranked[j].cagr

\* C17: no request operation changes the NAV store or the catalog, so both
\* stay what the startup load made them, the order of every observation
\* list included.
C17_RequestsLeaveStoresAlone ==
    [][NAV_DATA_MAP' = NAV_DATA_MAP /\ FUNDS_DATA' = FUNDS_DATA]_vars

\* A request that sorted the observations of a scheme stored out of order
\* has been served.
C17_Witness ==
    /\ op = "get_current_nav"
    /\ Stored(args.scheme_code)
    /\ Series(args.scheme_code) # SortEntriesDesc(Series(args.scheme_code))
    /\ result # None

\* The comparison was realigned to the first day of fund 2.
Realigned == Succeeded /\ result.adjustment.adjusted

\* C18 as stated: when compare_investment realigns the purchase date, both
\* legs have the same purchase date and the same duration_days.
C18_RealignedLegsSameDuration ==
    Realigned =>
        /\ result.fund1.investment.date = result.fund2.investment.date
        /\ result.fund1.metrics.duration_days = result.fund2.metrics.duration_days

\* C18 amended: when compare_investment realigns the purchase date, both
\* legs have the same purchase date S, the duration_days of each leg is the
\* number of days from S to the latest observation of its own fund, and the
\* two durations are equal exactly when the two latest observations are of
\* the same day.
C18_RealignedLegsSameStartOwnEnd ==
    Realigned =>
        LET request == args.request
            S == FirstDay(request.fund2_code)
        IN  /\ result.fund1.investment.date = DateStr(S, "padded")
            /\ result.fund2.investment.date = DateStr(S, "padded")
            /\ result.fund1.metrics.duration_days = LastDay(request.fund1_code) - S
            /\ result.fund2.metrics.duration_days = LastDay(request.fund2_code) - S
            /\ (result.fund1.metrics.duration_days = result.fund2.metrics.duration_days)
                   <=> (LastDay(request.fund1_code) = LastDay(request.fund2_code))

\* A realigned comparison of two funds last observed on the same day.
C18_Witness ==
    /\ Realigned
    /\ LastDay(args.request.fund1_code) = LastDay(args.request.fund2_code)
    /\ result.fund1.metrics.duration_days = result.fund2.metrics.duration_days

\* Fund 1 resolved at the requested date, which lies before the first day of
\* fund 2: compare_investment attempts to realign.
RealignmentAttempted ==
    /\ Admitted
    /\ HasData(args.request.fund1_code)
    /\ ~PredatesInception(args.request.fund1_code, args.request.investment_date)
    /\ PredatesInception(args.request.fund2_code, args.request.investment_date)

\* C19: with a store that does not change, compare_investment never answers
\* CANNOT_COMPARE: whenever it attempts to realign, the returns of fund 1
\* and of fund 2 at the first day S of fund 2 are both computed, fund 2 on
\* an observation of S itself.
C19_CannotCompareUnreachable ==
    /\ Comparing => ~(result.status = 400 /\ result.detail = "CANNOT_COMPARE")
    /\ RealignmentAttempted =>
           /\ result.status = 200
           /\ result.adjustment.adjusted
           /\ result.fund1.kind = "returns"
           /\ result.fund2.kind = "returns"
           /\ result.fund2.investment.exact_date_match
           /\ result.fund2.investment.purchase_date.day = FirstDay(args.request.fund2_code)

\* A realignment in which fund 1 has no observation on the first day of
\* fund 2 and is valued at an earlier one.
C19_Witness ==
    /\ RealignmentAttempted
    /\ result.status = 200
    /\ ~result.fund1.investment.exact_date_match
    /\ result.fund2.investment.exact_date_match

\* The purchase date both legs of a successful comparison were computed for.
UsedDate == result.fund1.investment.date

\* C20: in every successful comparison the purchase date used for both legs,
\* requested or realigned, is not before the requested date and is at least
\* 30 days before today.
C20_UsedDateIsOldEnough ==
    Succeeded =>
        /\ result.fund2.investment.date = UsedDate
        /\ UsedDate.day >= args.request.investment_date.day
        /\ UsedDate.day + MinAgeDays <= DayHandled

\* Every order in which the observations of a list can be stored.
StorageOrders(data) ==
    {[i \in 1..Len(data) |-> data[order[i]]] :
        order \in {f \in [1..Len(data) -> 1..Len(data)] :
                      \A i, j \in 1..Len(data) : f[i] = f[j] => i = j}}

\* The store with the observations of one scheme stored as data.
Reordered(code, data) == [NAV_DATA_MAP EXCEPT ![code].data = data]

\* C21: for a scheme whose observations have unique dates, get_nav_on_date
\* for every date and get_current_nav return the same value, the same NAV
\* point or the same BEFORE_FUND_START error with the same start date,
\* whatever the order in which the observations are stored.
C21_StorageOrderIsIrrelevant ==
    /\ (/\ op = "get_nav_on_date"
        /\ Stored(args.scheme_code)
        /\ UniqueDates(args.scheme_code))
           => \A data \in StorageOrders(Series(args.scheme_code)) :
                  get_nav_on_date(Reordered(args.scheme_code, data), args.scheme_code,
                                  args.investment_date) = result
    /\ (/\ op = "get_current_nav"
        /\ Stored(args.scheme_code)
        /\ UniqueDates(args.scheme_code))
           => \A data \in StorageOrders(Series(args.scheme_code)) :
                  get_current_nav(Reordered(args.scheme_code, data), args.scheme_code)
                      = result

\* A date after both observations of a scheme stored latest first, resolved
\* to the first stored one although it is not an exact match.
C21_Witness ==
    /\ op = "get_nav_on_date"
    /\ HasData(args.scheme_code)
    /\ UniqueDates(args.scheme_code)
    /\ Len(Series(args.scheme_code)) >= 2
    /\ Series(args.scheme_code)[1].date.day > Series(args.scheme_code)[2].date.day
    /\ ParseOk(args.investment_date)
    /\ args.investment_date.day > Series(args.scheme_code)[1].date.day
    /\ result.kind = "nav"
    /\ result.date = Series(args.scheme_code)[1].date

====
